---------------------------- MODULE Spec2Model ----------------------------
(***************************************************************************)
(* Careers backend (src/main.py, src/schemas.py): the route handlers of    *)
(* the careers API over a document store, and the serialization of stored  *)
(* documents.                                                              *)
(*                                                                         *)
(* Python values are tagged pairs <<tag, payload>>:                        *)
(*   <<"None", "">>, <<"str", s>>, <<"bool", "True">>, <<"bool", "False">>,*)
(*   <<"int", digits>>, <<"ObjectId", hex>>, <<"list", sequence>>,         *)
(*   <<"dict", function>>.                                                 *)
(* A dict's payload is a function from field names to values.              *)
(***************************************************************************)
EXTENDS Integers, Sequences, FiniteSets, TLC

VARIABLES
    jobs,          \* db["job"]: the stored documents, in insertion order
    applications,  \* db["application"]
    nextOid,       \* the next identifier the store assigns
    reqs,          \* the requests issued: input, position in the handler, response
    doc,           \* serialize_doc on its own: the argument
    out1,          \*   serialize_doc(doc)
    out2,          \*   serialize_doc(serialize_doc(doc))
    serpc          \*   how far the two calls got

vars == <<jobs, applications, nextOid, reqs, doc, out1, out2, serpc>>
storeVars == <<jobs, applications, nextOid, reqs>>
serVars == <<doc, out1, out2, serpc>>

----------------------------------------------------------------------------
(* Bounds *)

\* Requests issued in one behaviour (any of them may run concurrently).
MaxReqs == 2

----------------------------------------------------------------------------
(* Python values *)

None == <<"None", "">>
True == <<"bool", "True">>
False == <<"bool", "False">>
S(s) == <<"str", s>>
L(seq) == <<"list", seq>>
D(f) == <<"dict", f>>
EmptyDict == [k \in {} |-> None]

IsNone(v) == v[1] = "None"
IsStr(v) == v[1] = "str"
IsBool(v) == v[1] = "bool"
IsList(v) == v[1] = "list"
IsDict(v) == v[1] = "dict"

\* isinstance(v, ObjectId)
IsObjectId(v) == v[1] = "ObjectId"

\* Python truth value: None, "", False, 0, [] and {} are false; an ObjectId is true.
Truthy(v) ==
    CASE v[1] = "None" -> FALSE
      [] v[1] = "str" -> v[2] # ""
      [] v[1] = "bool" -> v[2] = "True"
      [] v[1] = "int" -> v[2] # "0"
      [] v[1] = "list" -> Len(v[2]) > 0
      [] v[1] = "dict" -> DOMAIN v[2] # {}
      [] v[1] = "ObjectId" -> TRUE

\* dict.get(k): the value, or None for an absent key
Get(f, k) == IF k \in DOMAIN f THEN f[k] ELSE None

\* the dict without key k
Without(f, k) == [x \in DOMAIN f \ {k} |-> f[x]]

\* the dict with key k set to v
With(f, k, v) == [x \in DOMAIN f \cup {k} |-> IF x = k THEN v ELSE f[x]]

----------------------------------------------------------------------------
(* bson.ObjectId: 12 bytes, written as 24 hexadecimal digits *)

HexDigits == <<"0", "1", "2", "3", "4", "5", "6", "7",
               "8", "9", "a", "b", "c", "d", "e", "f">>

\* The 24-digit text of the n-th identifier the store hands out.
Hex(n) == "65f0c0de00000000000000" \o HexDigits[(n \div 16) + 1]
                                   \o HexDigits[(n % 16) + 1]

HexStrings == {Hex(n) : n \in 0 .. 255}

\* ObjectId.is_valid(s) for a str s: 24 hexadecimal digits
is_valid(s) == s \in HexStrings

\* ObjectId(s) for a valid s
ObjectId(s) == <<"ObjectId", s>>

\* str(v): the hexadecimal text of an ObjectId, a str itself
str(v) ==
    CASE v[1] = "ObjectId" -> S(v[2])
      [] v[1] = "str" -> v
      [] v[1] = "bool" -> S(v[2])
      [] v[1] = "None" -> S("None")

----------------------------------------------------------------------------
(* serialize_doc, src/main.py:23-33 *)

\* The loop-before-rename variant without str(): the renamed identifier stays raw.
serialize_doc_raw_rename(v) ==
    IF ~Truthy(v) THEN v
    ELSE LET d0 == v[2]
             d1 == [k \in DOMAIN d0 |->
                       IF IsObjectId(d0[k]) /\ k # "_id" THEN str(d0[k]) ELSE d0[k]]
             d2 == IF Truthy(Get(d1, "_id"))
                   THEN With(Without(d1, "_id"), "id", d1["_id"])
                   ELSE d1
         IN  D(d2)

serialize_doc(v) ==
    IF ~Truthy(v) THEN v                                   \* if not doc: return doc
    ELSE LET d0 == v[2]                                    \* doc = dict(doc)
             d1 == IF Truthy(Get(d0, "_id"))               \* if doc.get("_id"):
                   THEN With(Without(d0, "_id"), "id", str(d0["_id"]))
                   ELSE d0
         IN  D([k \in DOMAIN d1 |->                        \* for k, v in doc.items()
                   IF IsObjectId(d1[k]) THEN str(d1[k]) ELSE d1[k]])


----------------------------------------------------------------------------
(* The Job schema, src/schemas.py:43-56; FastAPI validates the body of     *)
(* POST /careers/jobs against it before create_job runs.                   *)

JobRequired == {"title", "department", "location", "employment_type", "description"}
JobOptional == {"responsibilities", "requirements", "salary_range", "remote"}
JobFields == JobRequired \cup JobOptional

IsStrList(v) == IsList(v) /\ \A k \in 1 .. Len(v[2]) : IsStr(v[2][k])

\* The remote flag defaulting to True.
JobDefaultRemoteOn(f) ==
    CASE f \in {"responsibilities", "requirements"} -> L(<<>>)
      [] f = "salary_range" -> None
      [] f = "remote" -> True

\* The declared default of an optional field.
JobDefault(f) ==
    CASE f \in {"responsibilities", "requirements"} -> L(<<>>)   \* default_factory=list
      [] f = "salary_range" -> None
      [] f = "remote" -> False

\* Whether a JSON object passes the Job schema.
ValidJob(b) ==
    /\ \A f \in JobRequired : f \in DOMAIN b /\ IsStr(b[f])
    /\ \A f \in {"responsibilities", "requirements"} : f \in DOMAIN b => IsStrList(b[f])
    /\ "salary_range" \in DOMAIN b => IsStr(b["salary_range"]) \/ IsNone(b["salary_range"])
    /\ "remote" \in DOMAIN b => IsBool(b["remote"])

\* Job(**b): the declared fields, defaults filled in, extra fields ignored.
JobModel(b) == [f \in JobFields |-> IF f \in DOMAIN b THEN b[f] ELSE JobDefault(f)]

----------------------------------------------------------------------------
(* The Application schema, src/schemas.py:58-70 *)

AppRequired == {"job_id", "name", "email"}
AppText == {"phone", "cover_letter"}
AppUrls == {"linkedin", "portfolio"}
AppFields == AppRequired \cup AppText \cup AppUrls \cup {"consent"}

\* The texts pydantic's HttpUrl accepts, among those the requests carry.
WellFormedUrls == {"https://www.linkedin.com/in/ann"}

IsHttpUrl(v) == IsStr(v) /\ v[2] \in WellFormedUrls

\* A schema that checks nothing.
ValidApplicationUnchecked(a) == TRUE

\* Whether a JSON object passes the Application schema.
ValidApplication(a) ==
    /\ \A f \in AppRequired : f \in DOMAIN a /\ IsStr(a[f])
    /\ \A f \in AppText : f \in DOMAIN a => IsStr(a[f]) \/ IsNone(a[f])
    /\ \A f \in AppUrls : f \in DOMAIN a => IsHttpUrl(a[f]) \/ IsNone(a[f])
    /\ "consent" \in DOMAIN a => IsBool(a["consent"])

AppDefault(f) == IF f = "consent" THEN True ELSE None

\* Application(**a).dict()
ApplicationModel(a) == [f \in AppFields |-> IF f \in DOMAIN a THEN a[f] ELSE AppDefault(f)]

----------------------------------------------------------------------------
(* The document store: create_document and get_documents of database.py,   *)
(* and pymongo's find_one and count_documents on db[collection].           *)

\* create_document(collection, data): the collection with the new document,
\* which keeps every field of data and gets the n-th identifier as its _id.
create_document(coll, data, n) == Append(coll, With(data, "_id", ObjectId(Hex(n))))

\* db[collection].find_one({"_id": oid}): the document, or None.
find_one(coll, oid) ==
    IF \E k \in 1 .. Len(coll) : coll[k]["_id"] = oid
    THEN D(coll[CHOOSE k \in 1 .. Len(coll) : coll[k]["_id"] = oid])
    ELSE None

\* db[collection].count_documents({})
count_documents(coll) == Len(coll)

\* get_documents(collection, {}, limit=None)
get_documents(coll) == coll


----------------------------------------------------------------------------
(* Requests and responses *)

\* raise HTTPException(status_code, detail), as the client sees it
Detail(status, msg) == [status |-> status, body |-> D([detail |-> S(msg)])]

\* An HTTPException re-wrapped by the catch-all.
raise_http_wrapped(status, msg) == Detail(500, msg)

\* An HTTPException raised in a handler whose "except HTTPException: raise"
\* comes before the catch-all (src/main.py:117-118, 188-189).
raise_http(status, msg) == Detail(status, msg)

\* "except Exception as e: raise HTTPException(status_code=500, detail=str(e))"
raise_500(msg) == Detail(500, msg)

Multipart == "multipart/form-data; boundary=x"
UrlEncoded == "application/x-www-form-urlencoded"
Json == "application/json"

\* What a request carries: the body's content type and fields, the path
\* parameter of GET /careers/jobs/{job_id}, the uploaded files.
Input(ct, data, job_id, cv, pf) ==
    [content_type |-> ct, data |-> data, job_id |-> job_id, cv |-> cv, portfolio_file |-> pf]

NoInput == Input("", EmptyDict, "", None, None)

InFlight(r) == r.pc # "done"

\* The handler positions that read the job collection next.
ReadsJobs(pc) == pc \in {"gj_find", "ap_exists", "sd_count"}

\* A request as issued.  calls, faulted, new, alone and jobs0 record the run:
\* the store calls issued, whether one raised, the identifiers this request's
\* inserts persisted, for a seed request whether no other request was in
\* flight meanwhile, and for a request about to read the job collection the
\* size of that collection when the request was issued (0 for the others).
NewReq(kind, in, pc) ==
    [kind |-> kind, input |-> in, pc |-> pc, branch |-> "",
     payload |-> EmptyDict, inserted_id |-> "", ids |-> <<>>, count |-> -1,
     status |-> 0, body |-> None,
     calls |-> 0, faulted |-> FALSE, new |-> {},
     alone |-> kind = "seed" /\ \A k \in 1 .. Len(reqs) : ~InFlight(reqs[k]),
     jobs0 |-> 0]

Finish(r, resp) == [r EXCEPT !.pc = "done", !.status = resp.status, !.body = resp.body]

\* A store call that raises: the catch-all answers 500.
StoreError(r) ==
    Finish([r EXCEPT !.calls = @ + 1, !.faulted = TRUE], raise_500("store unavailable"))

Issue(r) ==
    /\ Len(reqs) < MaxReqs
    /\ reqs' = Append([k \in 1 .. Len(reqs) |->
                          IF InFlight(reqs[k]) /\ InFlight(r)
                          THEN [reqs[k] EXCEPT !.alone = FALSE] ELSE reqs[k]],
                      [r EXCEPT !.jobs0 = IF ReadsJobs(r.pc) THEN Len(jobs) ELSE 0])

Step(i, r) == reqs' = [reqs EXCEPT ![i] = r]

Slots == 1 .. MaxReqs

\* Request i stands at pc.
At(i, pc) == i <= Len(reqs) /\ reqs[i].pc = pc

----------------------------------------------------------------------------
(* GET /careers/jobs, src/main.py:88-94 *)

list_jobs_response(coll) ==
    [status |-> 200,
     body |-> L([k \in 1 .. Len(coll) |-> serialize_doc(D(coll[k]))])]

IssueListJobs ==
    /\ Issue(NewReq("list_jobs", NoInput, "lj_find"))
    /\ UNCHANGED <<jobs, applications, nextOid, serVars>>

ListJobsFind(i) ==
    /\ At(i, "lj_find")
    /\ \E ok \in BOOLEAN :
          Step(i, IF ok
                  THEN Finish([reqs[i] EXCEPT !.calls = @ + 1],
                              list_jobs_response(get_documents(jobs)))
                  ELSE StoreError(reqs[i]))
    /\ UNCHANGED <<jobs, applications, nextOid, serVars>>

----------------------------------------------------------------------------
(* POST /careers/jobs, src/main.py:97-105 *)

JobBase ==
    [title |-> S("SEO Lead"), department |-> S("Organic"), location |-> S("Remote"),
     employment_type |-> S("Contract"), description |-> S("Own the roadmap")]

JobFull ==
    [title |-> S("Designer"), department |-> S("Creative"), location |-> S("Brighton"),
     employment_type |-> S("Full-time"), description |-> S("Design the product"),
     responsibilities |-> L(<<S("Prototype"), S("Ship")>>),
     requirements |-> L(<<S("Figma")>>),
     salary_range |-> S("Competitive"), remote |-> True]

\* The bodies POST /careers/jobs is sent: the required fields alone, every
\* field with an unknown extra one, a required field missing, a wrong type.
JobBodies ==
    { JobBase,
      With(JobFull, "team_size", S("4")),
      Without(JobBase, "title"),
      With(JobBase, "remote", L(<<>>)) }

IssueCreateJob ==
    /\ \E b \in JobBodies :
          LET in == Input(Json, b, "", None, None)
          IN  Issue(IF ValidJob(b)
                    THEN [NewReq("create_job", in, "cj_insert") EXCEPT !.payload = JobModel(b)]
                    ELSE Finish(NewReq("create_job", in, "done"),
                                Detail(422, "validation error")))
    /\ UNCHANGED <<jobs, applications, nextOid, serVars>>

\* inserted_id = create_document("job", job)
CreateJobInsert(i) ==
    /\ At(i, "cj_insert")
    /\ \E ok \in BOOLEAN :
          IF ok
          THEN /\ jobs' = create_document(jobs, reqs[i].payload, nextOid)
               /\ nextOid' = nextOid + 1
               /\ Step(i, [reqs[i] EXCEPT !.pc = "cj_fetch", !.calls = @ + 1,
                                          !.inserted_id = Hex(nextOid),
                                          !.new = @ \cup {Hex(nextOid)}])
          ELSE /\ Step(i, StoreError(reqs[i]))
               /\ UNCHANGED <<jobs, nextOid>>
    /\ UNCHANGED <<applications, serVars>>

\* doc = db["job"].find_one({"_id": ObjectId(inserted_id)}); return serialize_doc(doc)
CreateJobFetch(i) ==
    /\ At(i, "cj_fetch")
    /\ \E ok \in BOOLEAN :
          Step(i, IF ok
                  THEN Finish([reqs[i] EXCEPT !.calls = @ + 1],
                              [status |-> 201,
                               body |-> serialize_doc(
                                   find_one(jobs, ObjectId(reqs[i].inserted_id)))])
                  ELSE StoreError(reqs[i]))
    /\ UNCHANGED <<jobs, applications, nextOid, serVars>>

----------------------------------------------------------------------------
(* GET /careers/jobs/{job_id}, src/main.py:108-120 *)

PathIds == {Hex(1), "not-an-id"}

\* The response once the lookup has answered.
get_job_response(coll, job_id) ==
    LET found == find_one(coll, ObjectId(job_id))
    IN  IF ~Truthy(found)
        THEN raise_http(404, "Job not found")
        ELSE [status |-> 200, body |-> serialize_doc(found)]

IssueGetJob ==
    /\ \E id \in PathIds :
          LET in == Input("", EmptyDict, id, None, None)
          IN  Issue(IF ~is_valid(id)
                    THEN Finish(NewReq("get_job", in, "done"),
                                raise_http(400, "Invalid job id"))
                    ELSE NewReq("get_job", in, "gj_find"))
    /\ UNCHANGED <<jobs, applications, nextOid, serVars>>

GetJobFind(i) ==
    /\ At(i, "gj_find")
    /\ \E ok \in BOOLEAN :
          Step(i, IF ok
                  THEN Finish([reqs[i] EXCEPT !.calls = @ + 1],
                              get_job_response(jobs, reqs[i].input.job_id))
                  ELSE StoreError(reqs[i]))
    /\ UNCHANGED <<jobs, applications, nextOid, serVars>>


----------------------------------------------------------------------------
(* POST /careers/apply, src/main.py:123-191 *)

FormContentTypes == {Multipart, UrlEncoded}

\* A Form(None) parameter as FastAPI decodes it: the field's text when the
\* body is a form that carries it, None when it is absent or empty.
FormValue(in, f) ==
    IF /\ in.content_type \in FormContentTypes
       /\ f \in DOMAIN in.data
       /\ in.data[f] # S("")
    THEN in.data[f]
    ELSE None

\* consent: Optional[bool] = Form(False), then bool(consent)
FormConsent(in) ==
    IF Truthy(FormValue(in, "consent")) THEN True ELSE False

\* content_type.startswith("multipart/form-data") or job_id is not None
is_form_branch(in) ==
    in.content_type = Multipart \/ ~IsNone(FormValue(in, "job_id"))

\* The payload built from the form fields.
form_payload(in) ==
    [f \in AppFields |-> IF f = "consent" THEN FormConsent(in) ELSE FormValue(in, f)]

\* A handler that looks no job up.
needs_job_check_never(payload) == FALSE

\* if payload.get("job_id") and ObjectId.is_valid(payload["job_id"])
needs_job_check(payload) ==
    Truthy(Get(payload, "job_id")) /\ is_valid(payload["job_id"][2])

\* The metadata of the uploads that are present.
files_meta(in) ==
    [label \in {l \in {"cv", "portfolio_file"} : ~IsNone(in[l])} |-> in[label]]

\* if files_meta: payload["files"] = files_meta
attach_files(payload, in) ==
    IF DOMAIN files_meta(in) # {}
    THEN With(payload, "files", D(files_meta(in)))
    ELSE payload

CvUpload ==
    D([filename |-> S("cv.pdf"), content_type |-> S("application/pdf"),
       size |-> <<"int", "1024">>])

Missing == "<missing>"

\* The applicant's fields: the job applied for, and a complete application,
\* one without a name, or one with a malformed profile URL.
Applicant(jid, variant) ==
    LET base == [email |-> S("ann@example.com")]
        j == IF jid = Missing THEN base ELSE With(base, "job_id", S(jid))
        n == IF variant = "no_name" THEN j ELSE With(j, "name", S("Ann"))
    IN  CASE variant = "bad_url" -> With(n, "linkedin", S("not a url"))
          [] variant = "complete" -> With(n, "linkedin", S("https://www.linkedin.com/in/ann"))
          [] variant = "no_name" -> n

\* The submissions: a complete application with a missing, an empty, a
\* malformed and a well-formed job_id as a multipart form (the last with an
\* uploaded CV) and as JSON; the application without its name, both ways;
\* one with a malformed URL as JSON; two url-encoded forms.
ApplyInputs ==
    {Input(Multipart, Applicant(j, "complete"), "", None, None) :
        j \in {Missing, "", "not-an-id"}}
    \cup {Input(Multipart, Applicant(Hex(1), "complete"), "", CvUpload, None)}
    \cup {Input(Json, Applicant(j, "complete"), "", None, None) :
        j \in {Missing, "", Hex(1)}}
    \cup {Input(ct, Applicant("", "no_name"), "", None, None) :
        ct \in {Multipart, Json}}
    \cup {Input(Json, Applicant("", "bad_url"), "", None, None)}
    \cup {Input(UrlEncoded, Applicant(j, "complete"), "", None, None) :
        j \in {Missing, Hex(1)}}

\* The handler up to its first store call.
apply_begin(r) ==
    LET in == r.input
    IN  IF is_form_branch(in)
        THEN LET p == form_payload(in)
             IN  IF needs_job_check(p)
                 THEN [r EXCEPT !.branch = "form", !.payload = p, !.pc = "ap_exists"]
                 ELSE [r EXCEPT !.branch = "form", !.payload = attach_files(p, in),
                                !.pc = "ap_insert"]
        ELSE IF in.content_type # Json
        THEN \* data = await request.json() raises: the body is no JSON
             Finish([r EXCEPT !.branch = "json"], raise_500("Expecting value"))
        ELSE IF ~ValidApplication(in.data)
        THEN \* Application(**data) raises pydantic's ValidationError
             Finish([r EXCEPT !.branch = "json"], raise_500("validation error"))
        ELSE LET p == ApplicationModel(in.data)
             IN  [r EXCEPT !.branch = "json", !.payload = p,
                           !.pc = IF needs_job_check(p) THEN "ap_exists" ELSE "ap_insert"]

IssueApply ==
    /\ \E in \in ApplyInputs : Issue(apply_begin(NewReq("apply", in, "begin")))
    /\ UNCHANGED <<jobs, applications, nextOid, serVars>>

\* exists = db["job"].find_one(...); if not exists: raise HTTPException(404)
ApplyExists(i) ==
    /\ At(i, "ap_exists")
    /\ \E ok \in BOOLEAN :
          LET r == [reqs[i] EXCEPT !.calls = @ + 1]
              exists == find_one(jobs, ObjectId(r.payload["job_id"][2]))
          IN  Step(i, IF ~ok THEN StoreError(reqs[i])
                      ELSE IF ~Truthy(exists)
                      THEN Finish(r, raise_http(404, "Job not found for application"))
                      ELSE [r EXCEPT !.pc = "ap_insert",
                                     !.payload = IF r.branch = "form"
                                                 THEN attach_files(@, r.input) ELSE @])
    /\ UNCHANGED <<jobs, applications, nextOid, serVars>>

\* inserted_id = create_document("application", payload)
ApplyInsert(i) ==
    /\ At(i, "ap_insert")
    /\ \E ok \in BOOLEAN :
          IF ok
          THEN /\ applications' = create_document(applications, reqs[i].payload, nextOid)
               /\ nextOid' = nextOid + 1
               /\ Step(i, [reqs[i] EXCEPT !.pc = "ap_fetch", !.calls = @ + 1,
                                          !.inserted_id = Hex(nextOid),
                                          !.new = @ \cup {Hex(nextOid)}])
          ELSE /\ Step(i, StoreError(reqs[i]))
               /\ UNCHANGED <<applications, nextOid>>
    /\ UNCHANGED <<jobs, serVars>>

\* doc = db["application"].find_one(...); return serialize_doc(doc)
ApplyFetch(i) ==
    /\ At(i, "ap_fetch")
    /\ \E ok \in BOOLEAN :
          Step(i, IF ok
                  THEN Finish([reqs[i] EXCEPT !.calls = @ + 1],
                              [status |-> 201,
                               body |-> serialize_doc(
                                   find_one(applications, ObjectId(reqs[i].inserted_id)))])
                  ELSE StoreError(reqs[i]))
    /\ UNCHANGED <<jobs, applications, nextOid, serVars>>

----------------------------------------------------------------------------
(* POST /careers/seed, src/main.py:194-265 *)

examples ==
    << [title |-> S("Senior SEO Strategist"), department |-> S("Organic"),
        location |-> S("Brighton, UK"), employment_type |-> S("Full-time"),
        description |-> S("Lead strategy across enterprise SEO accounts, collaborating with content, UX, and dev."),
        responsibilities |-> L(<<S("Own SEO strategy for key clients"),
                                 S("Guide technical audits and roadmaps"),
                                 S("Mentor junior team members")>>),
        requirements |-> L(<<S("5+ years SEO experience"),
                             S("Strong technical SEO skills"),
                             S("Comfortable with stakeholder communication")>>),
        salary_range |-> S("45k-60k DOE"), remote |-> True],
       [title |-> S("Performance Media Manager"), department |-> S("Media"),
        location |-> S("Hybrid / Brighton"), employment_type |-> S("Full-time"),
        description |-> S("Plan, launch and optimize paid search & social campaigns focused on measurable growth."),
        responsibilities |-> L(<<S("Own PPC & Paid Social across channels"),
                                 S("Implement testing frameworks"),
                                 S("Report insights and iterate")>>),
        requirements |-> L(<<S("4+ years in performance media"),
                             S("Platform certifications"),
                             S("Strong analytical mindset")>>),
        salary_range |-> S("40k-55k DOE"), remote |-> True],
       [title |-> S("Product Designer (UX/UI)"), department |-> S("Creative"),
        location |-> S("Remote (UK)"), employment_type |-> S("Contract"),
        description |-> S("Design simple, beautiful product experiences across web with accessibility in mind."),
        responsibilities |-> L(<<S("Translate strategy into UX flows"),
                                 S("Create UI systems and prototypes"),
                                 S("Collaborate with dev for implementation")>>),
        requirements |-> L(<<S("Strong portfolio of shipped work"),
                             S("Accessibility knowledge"),
                             S("Proficiency in Figma")>>),
        salary_range |-> S("Competitive"), remote |-> True] >>

\* The check written count >= 0.
jobs_already_exist_from_zero(count) == count >= 0

\* The check written count > 1.
jobs_already_exist_above_one(count) == count > 1

\* if count > 0: return {"seeded": False, ...}
jobs_already_exist(count) == count > 0

IntText(n) == <<"int", HexDigits[n + 1]>>

seeded_response(ids) ==
    [status |-> 201,
     body |-> D([seeded |-> True, count |-> IntText(Len(ids)),
                 ids |-> L([k \in 1 .. Len(ids) |-> S(ids[k])])])]

not_seeded_response ==
    [status |-> 201, body |-> D([seeded |-> False, message |-> S("Jobs already exist")])]

IssueSeed ==
    /\ Issue(NewReq("seed", NoInput, "sd_count"))
    /\ UNCHANGED <<jobs, applications, nextOid, serVars>>

\* count = db["job"].count_documents({}) if db else 0
\* The step raises when the store is unreachable or when the truth test of
\* db itself raises; without a database the count is that of an empty store.
SeedCount(i) ==
    /\ At(i, "sd_count")
    /\ \E ok \in BOOLEAN :
          LET r == [reqs[i] EXCEPT !.calls = @ + 1, !.count = count_documents(jobs)]
          IN  Step(i, IF ~ok THEN StoreError(reqs[i])
                      ELSE IF jobs_already_exist(r.count)
                      THEN Finish(r, not_seeded_response)
                      ELSE [r EXCEPT !.pc = "sd_insert"])
    /\ UNCHANGED <<jobs, applications, nextOid, serVars>>

\* for ex in examples: ids.append(create_document("job", ex))
SeedInsert(i) ==
    /\ At(i, "sd_insert")
    /\ \E ok \in BOOLEAN :
          IF ok
          THEN LET ex == examples[Len(reqs[i].ids) + 1]
                   r == [reqs[i] EXCEPT !.calls = @ + 1,
                                        !.ids = Append(@, Hex(nextOid)),
                                        !.new = @ \cup {Hex(nextOid)}]
               IN  /\ jobs' = create_document(jobs, ex, nextOid)
                   /\ nextOid' = nextOid + 1
                   /\ Step(i, IF Len(r.ids) = Len(examples)
                              THEN Finish(r, seeded_response(r.ids))
                              ELSE r)
          ELSE /\ Step(i, StoreError(reqs[i]))
               /\ UNCHANGED <<jobs, nextOid>>
    /\ UNCHANGED <<applications, serVars>>

----------------------------------------------------------------------------
(* The server *)

Init ==
    /\ jobs = <<>>
    /\ applications = <<>>
    /\ nextOid = 1
    /\ reqs = <<>>
    /\ doc = None /\ out1 = None /\ out2 = None /\ serpc = "off"

Next ==
    \/ IssueListJobs
    \/ IssueCreateJob
    \/ IssueGetJob
    \/ IssueApply
    \/ IssueSeed
    \/ \E i \in Slots : ListJobsFind(i)
    \/ \E i \in Slots : CreateJobInsert(i)
    \/ \E i \in Slots : CreateJobFetch(i)
    \/ \E i \in Slots : GetJobFind(i)
    \/ \E i \in Slots : ApplyExists(i)
    \/ \E i \in Slots : ApplyInsert(i)
    \/ \E i \in Slots : ApplyFetch(i)
    \/ \E i \in Slots : SeedCount(i)
    \/ \E i \in Slots : SeedInsert(i)

Spec == Init /\ [][Next]_vars

----------------------------------------------------------------------------
(* serialize_doc on its own, applied once and then to its own result *)

Absent == <<"absent", "">>
SerIds == {ObjectId(Hex(1)), S(Hex(1)), S(""), None}
SerValues ==
    [_id : SerIds \cup {Absent}, id : {S("x"), ObjectId(Hex(2)), Absent},
     owner : {ObjectId(Hex(2)), S("ann"), Absent},
     refs : {L(<<ObjectId(Hex(3)), S("a")>>), D([by |-> ObjectId(Hex(3))]),
             L(<<S("a")>>), Absent}]

SerDoc(c) == [k \in {f \in DOMAIN c : c[f] # Absent} |-> c[k]]

\* The arguments: None, the empty document, and documents with and without
\* an _id, with identifiers at the top level and inside lists and mappings.
SerDocs == {None} \cup {D(SerDoc(c)) : c \in SerValues}

SerInit ==
    /\ jobs = <<>> /\ applications = <<>> /\ nextOid = 1 /\ reqs = <<>>
    /\ doc \in SerDocs
    /\ out1 = None /\ out2 = None /\ serpc = "start"

SerializeOnce ==
    /\ serpc = "start"
    /\ out1' = serialize_doc(doc)
    /\ serpc' = "once"
    /\ UNCHANGED <<doc, out2, storeVars>>

SerializeTwice ==
    /\ serpc = "once"
    /\ out2' = serialize_doc(out1)
    /\ serpc' = "twice"
    /\ UNCHANGED <<doc, out1, storeVars>>

SerNext == SerializeOnce \/ SerializeTwice

SerSpec == SerInit /\ [][SerNext]_vars


----------------------------------------------------------------------------
(* What the properties speak of *)

Done(r) == r.pc = "done"
Requests == {reqs[i] : i \in 1 .. Len(reqs)}
DoneOf(kind) == {r \in Requests : Done(r) /\ r.kind = kind}

\* A syntactically well-formed identifier: 24 hexadecimal digits.
WellFormedIds == {Hex(n) : n \in 0 .. 255}
WellFormedId(s) == s \in WellFormedIds

\* The documents of a collection that carry the identifier written hex.
DocsWithId(coll, hex) ==
    {coll[k] : k \in {x \in 1 .. Len(coll) : coll[x]["_id"] = <<"ObjectId", hex>>}}

\* A stored document as it goes over the wire: id is the text of _id.
Wire(d) ==
    D([k \in (DOMAIN d \ {"_id"}) \cup {"id"} |->
          IF k = "id" THEN <<"str", d["_id"][2]>> ELSE d[k]])

ErrorBody(msg) == D([detail |-> <<"str", msg>>])

\* The collection a route inserts into.
CollectionOf(r) == IF r.kind = "apply" THEN applications ELSE jobs

\* The job_id an application was submitted with (Missing when it has none).
SubmittedJobId(r) ==
    IF "job_id" \in DOMAIN r.input.data THEN r.input.data["job_id"][2] ELSE Missing

\* The application passes the schema once its job_id is left aside.
OtherwiseValid(r) ==
    /\ "name" \in DOMAIN r.input.data
    /\ "email" \in DOMAIN r.input.data
    /\ "linkedin" \in DOMAIN r.input.data
          => r.input.data["linkedin"][2] = "https://www.linkedin.com/in/ann"

Accepted(r) == r.status = 201 /\ Cardinality(r.new) = 1
NotFoundForApplication(r) ==
    r.status = 404 /\ r.body = ErrorBody("Job not found for application") /\ r.new = {}
Rejected(r) == r.status >= 400 /\ r.new = {}

\* The job applied for was stored when the request was issued.
JobStoredAtIssue(r, hex) == DocsWithId(SubSeq(jobs, 1, r.jobs0), hex) # {}

----------------------------------------------------------------------------
(* C1 *)

\* C1: every POST /careers/jobs and POST /careers/apply ends either with
\* exactly one new document persisted and a 201 carrying that document, or
\* with no new document and an error response, whichever store call failed.
C1_NoPartialSuccess ==
    \A r \in DoneOf("create_job") \cup DoneOf("apply") :
        \/ /\ r.status = 201
           /\ \E h \in r.new :
                 /\ r.new = {h}
                 /\ \E d \in DocsWithId(CollectionOf(r), h) : r.body = Wire(d)
        \/ /\ r.status >= 400
           /\ r.new = {}

----------------------------------------------------------------------------
(* C2 *)

\* The gating on the job_id's shape and on the job's existence, common to the
\* claim as made and as amended.
GatingOnExistence(r) ==
    LET j == SubmittedJobId(r)
    IN  /\ WellFormedId(j) /\ JobStoredAtIssue(r, j) => Accepted(r)
        /\ WellFormedId(j) /\ DocsWithId(jobs, j) = {} => NotFoundForApplication(r)

\* The applications the gating is about: sent as a form the handler reads as
\* one or as JSON, complete but for the job_id, and no store call failing.
GatedApplications ==
    {r \in DoneOf("apply") :
        /\ r.branch = "form" \/ r.input.content_type = Json
        /\ ~r.faulted
        /\ OtherwiseValid(r)}

\* C2 as made: in both submission modes an existing job gives 201 and one
\* insert, a well-formed unknown job_id gives 404 and no insert, and an empty
\* or missing job_id gives 201 and one insert.
C2_GatingAsClaimed ==
    \A r \in GatedApplications :
        /\ GatingOnExistence(r)
        /\ SubmittedJobId(r) \in {Missing, ""} => Accepted(r)

\* C2 as amended: an existing job gives 201 and one insert and a well-formed
\* unknown job_id gives 404 and no insert, in both modes; an empty or missing
\* job_id gives 201 and one insert in form mode, an empty one does in JSON
\* mode; a JSON body without a job_id is rejected with nothing inserted.
C2_Gating ==
    \A r \in GatedApplications :
        LET j == SubmittedJobId(r)
        IN  /\ GatingOnExistence(r)
            /\ j \in {Missing, ""} /\ r.branch = "form" => Accepted(r)
            /\ j = "" /\ r.input.content_type = Json => Accepted(r)
            /\ j = Missing /\ r.input.content_type = Json => Rejected(r)

\* A job was created and an application for it accepted.
C2_Witness ==
    \E c \in DoneOf("create_job"), r \in DoneOf("apply") :
        /\ c.status = 201
        /\ r.input.content_type = Json
        /\ SubmittedJobId(r) = c.inserted_id
        /\ Accepted(r)

----------------------------------------------------------------------------
(* C3 *)

\* C3: GET /careers/jobs/{id} answers 400 "Invalid job id" without any store
\* call for an id that is not well-formed; for a well-formed id (the lookup
\* not failing) 404 "Job not found" when no job has it and the serialized job
\* when one has; neither error is turned into a 500.
C3_GetJob ==
    \A r \in DoneOf("get_job") :
        LET id == r.input.job_id
        IN  /\ ~WellFormedId(id) =>
                  r.status = 400 /\ r.body = ErrorBody("Invalid job id") /\ r.calls = 0
            /\ WellFormedId(id) /\ ~r.faulted =>
                  /\ r.calls = 1
                  /\ \/ r.status = 404 /\ r.body = ErrorBody("Job not found")
                     \/ r.status = 200 /\ \E d \in DocsWithId(jobs, id) : r.body = Wire(d)
                  /\ DocsWithId(jobs, id) = {} => r.status = 404
                  /\ JobStoredAtIssue(r, id) => r.status = 200

\* A malformed id was refused without a lookup, and a well-formed unknown id
\* was answered 404.
C3_Witness ==
    \E a \in DoneOf("get_job"), b \in DoneOf("get_job") :
        /\ a.status = 400 /\ a.calls = 0
        /\ b.status = 404 /\ WellFormedId(b.input.job_id) /\ b.calls = 1

----------------------------------------------------------------------------
(* C4 *)

SchemaViolation(r) ==
    \/ r.kind = "create_job" /\ ~ValidJob(r.input.data)
    \/ r.kind = "apply" /\ r.input.content_type = Json /\ ~ValidApplication(r.input.data)

\* C4: a request whose body violates the schema (POST /careers/jobs against
\* Job, a JSON POST /careers/apply against Application) is answered 4xx, never
\* 500; a 404 raised in the handler keeps its status.
C4_SchemaViolationIs4xx ==
    \A r \in DoneOf("create_job") \cup DoneOf("apply") :
        /\ SchemaViolation(r) => r.status >= 400 /\ r.status < 500
        /\ r.body = ErrorBody("Job not found for application") => r.status = 404

----------------------------------------------------------------------------
(* C5 *)

SeededBody(r) ==
    /\ r.status = 201
    /\ IsDict(r.body)
    /\ DOMAIN r.body[2] = {"seeded", "count", "ids"}
    /\ r.body[2]["seeded"] = <<"bool", "True">>
    /\ r.body[2]["count"] = <<"int", "3">>
    /\ r.body[2]["ids"][1] = "list"
    /\ Len(r.body[2]["ids"][2]) = 3

\* The three identifiers reported are those of three jobs this request stored.
SeededThree(r) ==
    /\ SeededBody(r)
    /\ Cardinality(r.new) = 3
    /\ \A k \in 1 .. 3 :
          LET id == r.body[2]["ids"][2][k]
          IN  id[1] = "str" /\ id[2] \in r.new /\ DocsWithId(jobs, id[2]) # {}

NotSeeded(r) ==
    /\ r.status = 201
    /\ IsDict(r.body)
    /\ "seeded" \in DOMAIN r.body[2]
    /\ r.body[2]["seeded"] = <<"bool", "False">>
    /\ r.new = {}

\* A seed request no other request ran beside, and no store call of which failed.
SequentialSeed(r) == r.kind = "seed" /\ Done(r) /\ r.alone /\ ~r.faulted

\* C5: run on its own, a seed issued on an empty job collection inserts three
\* jobs and reports seeded: true with their identifiers, and one issued on a
\* non-empty collection inserts nothing and reports seeded: false; so seed
\* calls run one after another on a fresh store leave exactly three jobs.
C5_SeedSequential ==
    /\ \A r \in {x \in Requests : SequentialSeed(x)} :
          /\ r.jobs0 = 0 => SeededThree(r)
          /\ r.jobs0 > 0 => NotSeeded(r)
    /\ Requests # {} /\ (\A r \in Requests : SequentialSeed(r)) => Len(jobs) = 3

\* Two seeds one after the other: the first seeded, the second did not.
C5_Witness ==
    /\ Len(reqs) = 2
    /\ SequentialSeed(reqs[1]) /\ SeededThree(reqs[1])
    /\ SequentialSeed(reqs[2]) /\ NotSeeded(reqs[2]) /\ reqs[2].jobs0 = 3
    /\ Len(jobs) = 3

----------------------------------------------------------------------------
(* C6 *)

\* C6: the count check and the inserts are not atomic: a seed that read
\* count 0 inserts its three jobs and reports seeded: true whatever was
\* inserted since it read the count, so two concurrent seeds can both insert;
\* the jobs never exceed three per seed request beside those created.
C6_SeedRace ==
    /\ \A r \in DoneOf("seed") :
          ~r.faulted => IF r.count = 0 THEN SeededThree(r) ELSE NotSeeded(r)
    /\ Len(jobs) <= 3 * Cardinality({i \in 1 .. Len(reqs) : reqs[i].kind = "seed"})
                    + Cardinality({i \in 1 .. Len(reqs) : reqs[i].kind = "create_job"})

\* Both of two concurrent seeds read count 0, both report seeded: true, and
\* six jobs are stored.
C6_Witness ==
    /\ Len(reqs) = 2
    /\ \A i \in {1, 2} :
          /\ reqs[i].kind = "seed" /\ Done(reqs[i])
          /\ reqs[i].count = 0 /\ SeededThree(reqs[i])
    /\ Len(jobs) = 6


----------------------------------------------------------------------------
(* C7 *)

RECURSIVE HasObjectId(_)
\* A value of the raw identifier type, at any depth of v.
HasObjectId(v) ==
    CASE v[1] = "ObjectId" -> TRUE
      [] v[1] = "list" -> \E k \in 1 .. Len(v[2]) : HasObjectId(v[2][k])
      [] v[1] = "dict" -> \E k \in DOMAIN v[2] : HasObjectId(v[2][k])
      [] OTHER -> FALSE

\* A document as the store holds it: _id is a system-assigned identifier.
IsStoredDoc(v) ==
    v[1] = "dict" /\ "_id" \in DOMAIN v[2] /\ v[2]["_id"][1] = "ObjectId"

\* C7: the serialization of a stored document has id equal to the text of
\* its identifier, no _id field, and no identifier-typed value at any depth.
C7_NoRawIdentifier ==
    serpc # "start" /\ IsStoredDoc(doc) =>
        /\ out1[1] = "dict"
        /\ "id" \in DOMAIN out1[2]
        /\ out1[2]["id"] = <<"str", doc[2]["_id"][2]>>
        /\ "_id" \notin DOMAIN out1[2]
        /\ ~HasObjectId(out1)

----------------------------------------------------------------------------
(* C8 *)

NameOmitted(r) == "name" \notin DOMAIN r.input.data

\* C8: with the name omitted, a form submission that passes the job gate is
\* accepted (201, one application stored, its name None) and a JSON one is
\* rejected before any store call (error response, nothing stored); the form
\* path never answers with a validation failure.
C8_DualMode ==
    \A r \in DoneOf("apply") :
        /\ NameOmitted(r) /\ r.input.content_type = Multipart
              /\ ~r.faulted /\ r.status # 404 =>
              /\ Accepted(r)
              /\ \A h \in r.new : \A d \in DocsWithId(applications, h) :
                    d["name"] = <<"None", "">>
        /\ NameOmitted(r) /\ r.input.content_type = Json =>
              Rejected(r) /\ r.calls = 0
        /\ r.branch = "form" /\ ~r.faulted => r.status \in {201, 404}

\* The same applicant data without a name, accepted as a form and rejected
\* as JSON.
C8_Witness ==
    \E f \in DoneOf("apply"), j \in DoneOf("apply") :
        /\ NameOmitted(f) /\ f.input.data = j.input.data
        /\ f.input.content_type = Multipart /\ Accepted(f)
        /\ j.input.content_type = Json /\ Rejected(j)

----------------------------------------------------------------------------
(* C9 *)

\* The defaults the Job schema declares, as the specification lists them.
DeclaredDefault(f) ==
    CASE f = "responsibilities" -> <<"list", <<>>>>
      [] f = "requirements" -> <<"list", <<>>>>
      [] f = "salary_range" -> <<"None", "">>
      [] f = "remote" -> <<"bool", "False">>

\* The object GET must give for payload p created under the identifier id.
RoundTrip(p, id) ==
    D([f \in JobFields \cup {"id"} |->
          IF f = "id" THEN id
          ELSE IF f \in DOMAIN p THEN p[f]
          ELSE DeclaredDefault(f)])

----------------------------------------------------------------------------
(* C10 *)

\* C10: serializing the result of serialize_doc again changes nothing, and
\* None and the empty document are returned as they are.
C10_Idempotent ==
    /\ serpc = "twice" => out2 = out1
    /\ serpc # "start" /\ (doc = None \/ doc = D(EmptyDict)) => out1 = doc

\* A stored document was serialized twice, the first call having changed it.
C10_Witness ==
    /\ serpc = "twice"
    /\ IsStoredDoc(doc)
    /\ out1 # doc
    /\ out2 = out1

=============================================================================
